---- MODULE Spec2Model ----
(***************************************************************************)
(* A model of audiblez.py: chapter selection (find_chapters, pick_chapters),*)
(* text extraction (extract_texts), the resumable synthesis loop of main    *)
(* and the assembly of the audiobook (create_m4b).                          *)
(*                                                                          *)
(* Strings the program measures, strips, slices and concatenates are kept   *)
(* run-length encoded: a sequence of runs [c |-> character, n |-> count],   *)
(* adjacent runs holding different characters.  File names are sequences of *)
(* tokens, ".epub" being one token, so that str.replace acts on tokens.     *)
(* Item names are sequences of characters.                                  *)
(***************************************************************************)
EXTENDS Integers, Sequences, FiniteSets, TLC

VARIABLES
    \* inputs of main, fixed for the life of a behaviour
    filename, inCwd, title, creator, cover_image, has_ffmpeg, bodies,
    \* the working directory: path -> file content
    fs,
    \* the process running main
    pc, run, texts, i, text, samples, chapter_mp3_files, total_chars,
    processed_chars, combined_audio, returncode,
    \* history of the current run and of the runs before it
    calls, jobs, reused, loop_done, prev_loop_done, prev_texts, stable, fs0,
    \* the chapter classifier
    items, chapters, cpc

inputVars == <<filename, inCwd, title, creator, cover_image, has_ffmpeg, bodies>>
procVars == <<pc, run, texts, i, text, samples, chapter_mp3_files, total_chars,
              processed_chars, combined_audio, returncode>>
histVars == <<calls, jobs, reused, loop_done, prev_loop_done, prev_texts, stable, fs0>>
classVars == <<items, chapters, cpc>>
vars == <<inputVars, fs, procVars, histVars, classVars>>

----------------------------------------------------------------------------
(* Bounds of the model *)

MaxChapters == 3
MaxRuns == 2
MaxItems == 3

(* Constants of the program *)

MinChars == 10
SliceLen == 200

----------------------------------------------------------------------------
(* Strings, run-length encoded *)

Str(c, n) == IF n = 0 THEN <<>> ELSE <<[c |-> c, n |-> n]>>

\* s + t
Cat(s, t) ==
    IF s = <<>> THEN t
    ELSE IF t = <<>> THEN s
    ELSE IF s[Len(s)].c = t[1].c
         THEN SubSeq(s, 1, Len(s) - 1)
              \o <<[c |-> t[1].c, n |-> s[Len(s)].n + t[1].n]>>
              \o Tail(t)
         ELSE s \o t

\* len(s)
RECURSIVE StrLen(_)
StrLen(s) == IF s = <<>> THEN 0 ELSE s[1].n + StrLen(Tail(s))

IsSpace(c) == c \in {" ", "\n", "\t"}

RECURSIVE LStrip(_)
LStrip(s) == IF s # <<>> /\ IsSpace(s[1].c) THEN LStrip(Tail(s)) ELSE s

RECURSIVE RStrip(_)
RStrip(s) ==
    IF s # <<>> /\ IsSpace(s[Len(s)].c) THEN RStrip(SubSeq(s, 1, Len(s) - 1)) ELSE s

\* s.strip()
Strip(s) == RStrip(LStrip(s))

\* s[:k]
RECURSIVE Slice(_, _)
Slice(s, k) ==
    IF s = <<>> \/ k <= 0 THEN <<>>
    ELSE IF s[1].n >= k THEN <<[c |-> s[1].c, n |-> k]>>
    ELSE <<s[1]>> \o Slice(Tail(s), k - s[1].n)

----------------------------------------------------------------------------
(* File names *)

\* name.replace(old, new): every occurrence of the token old becomes new
RECURSIVE Replace(_, _, _)
Replace(name, old, new) ==
    IF name = <<>> THEN <<>>
    ELSE (IF name[1] = old THEN new ELSE <<name[1]>>) \o Replace(Tail(name), old, new)

chapter_filename(n) == Replace(filename, ".epub", <<"_chapter_", ToString(n), ".wav">>)
tmp_filename == Replace(filename, ".epub", <<".tmp", ".mp4">>)
final_filename == Replace(filename, ".epub", <<".m4b">>)

Exists(p) == p \in DOMAIN fs

\* the directory with the file p holding content c
WriteFile(dir, p, c) == [q \in DOMAIN dir \cup {p} |-> IF q = p THEN c ELSE dir[q]]
\* the directory without the file p
Unlink(dir, p) == [q \in DOMAIN dir \ {p} |-> dir[q]]

File(kind, segs, complete, cover) ==
    [kind |-> kind, segs |-> segs, complete |-> complete, cover |-> cover]

EpubFile == File("epub", <<>>, TRUE, FALSE)

----------------------------------------------------------------------------
(* extract_texts *)

html_content_tags == {"title", "p", "h1", "h2", "h3", "h4"}

\* the text of one chapter: the stripped text of every allow-listed element
\* that is not empty, each followed by a newline
RECURSIVE chapter_text(_)
chapter_text(body) ==
    IF body = <<>> THEN <<>>
    ELSE LET child == body[1]
             inner_text == Strip(child.text)
             rest == chapter_text(Tail(body))
         IN  IF child.tag \in html_content_tags /\ inner_text # <<>>
             THEN Cat(Cat(inner_text, Str("\n", 1)), rest)
             ELSE rest

extract_texts(chs) == [k \in 1..Len(chs) |-> chapter_text(chs[k])]

\* Chapter bodies the model draws from: sequences of elements [tag, text]
BodyNine ==
    <<[tag |-> "div", text |-> Str("a", 40)],
      [tag |-> "p", text |-> Str(" ", 3)],
      [tag |-> "h1", text |-> Cat(Str(" ", 2), Cat(Str("a", 9), Str("\n", 1)))]>>
BodyTen == <<[tag |-> "p", text |-> Str("a", 10)]>>
BodyLong ==
    <<[tag |-> "h1", text |-> Str("a", 5)],
      [tag |-> "li", text |-> Str("z", 7)],
      [tag |-> "p", text |-> Str("a", 250)]>>
Bodies == {BodyNine, BodyTen, BodyLong}

SeqsUpTo(S, n) == UNION {[1..k -> S] : k \in 1..n}

\* the elements of seq at the indices in S, in the order of seq
RECURSIVE Selected(_, _)
Selected(seq, S) ==
    IF seq = <<>> THEN <<>>
    ELSE (IF 1 \in S THEN <<seq[1]>> ELSE <<>>)
         \o Selected(Tail(seq), {k - 1 : k \in S \ {1}})

\* bodies are the Document items of the book, every one of them selected by
\* find_chapters; pick_chapters returns one or more of them, as the user
\* selects, in the order of the book
Selections == {Selected(bodies, S) : S \in SUBSET (1..Len(bodies)) \ {{}}}

FileNames == {<<"book", ".epub">>, <<"book", ".EPUB">>}
Titles == {Str("t", 4)}
Creators == {Str("c", 3)}

----------------------------------------------------------------------------
(* main: the synthesis loop *)

\* f"{title} by {creator}"
intro == Cat(title, Cat(Str(" ", 1), Cat(Str("b", 1), Cat(Str("y", 1), Cat(Str(" ", 1), creator)))))
\* intro + ".\n\n"
IntroLine == Cat(intro, Cat(Str(".", 1), Str("\n", 2)))

\* sum(map(len, texts))
RECURSIVE SumLen(_)
SumLen(ts) == IF ts = <<>> THEN 0 ELSE StrLen(ts[1]) + SumLen(Tail(ts))

\* the length test without the strip: len(text) < 10
IsEmptyChapter_NoStrip(t) == StrLen(t) < MinChars

\* len(text.strip()) < 10
IsEmptyChapter(t) == StrLen(Strip(t)) < MinChars

\* epub.read_epub(file_path): the e-book is in the working directory when
\* file_path has no directory part, and elsewhere (untouched) otherwise
CanReadEpub == inCwd => (Exists(filename) /\ fs[filename].kind = "epub")

Running == {"loop", "create", "write", "writing", "m4b", "export", "exporting",
            "ffmpeg", "muxing", "unlink"}

Init ==
    /\ filename \in FileNames
    /\ inCwd \in BOOLEAN
    /\ title \in Titles
    /\ creator \in Creators
    /\ cover_image \in BOOLEAN
    /\ has_ffmpeg \in BOOLEAN
    /\ bodies \in SeqsUpTo(Bodies, MaxChapters)
    /\ fs = [p \in (IF inCwd THEN {filename} ELSE {}) |-> EpubFile]
    /\ pc = "idle"
    /\ run = 0
    /\ texts = <<>>
    /\ i = 0
    /\ text = <<>>
    /\ samples = <<>>
    /\ chapter_mp3_files = <<>>
    /\ total_chars = 0
    /\ processed_chars = 0
    /\ combined_audio = <<>>
    /\ returncode = -1
    /\ calls = <<>>
    /\ jobs = <<>>
    /\ reused = FALSE
    /\ loop_done = FALSE
    /\ prev_loop_done = FALSE
    /\ prev_texts = <<>>
    /\ stable = TRUE
    /\ fs0 = fs
    /\ items = <<>>
    /\ chapters = <<>>
    /\ cpc = "off"

\* main up to the loop, with chs the chapters selected: a new process, started
\* when no process is running
start_run(chs) ==
    /\ pc \in {"idle", "done", "stopped", "crashed"}
    /\ run < MaxRuns
    /\ run' = run + 1
    /\ IF CanReadEpub
       THEN texts' = extract_texts(chs) /\ pc' = "loop"
       ELSE texts' = <<>> /\ pc' = "crashed"
    /\ total_chars' = SumLen(texts')
    /\ i' = 1
    /\ text' = <<>>
    /\ samples' = <<>>
    /\ chapter_mp3_files' = <<>>
    /\ processed_chars' = 0
    /\ combined_audio' = <<>>
    /\ returncode' = -1
    /\ calls' = <<>>
    /\ jobs' = [k \in 1..Len(texts') |-> "Pending"]
    /\ reused' = FALSE
    /\ prev_loop_done' = loop_done
    /\ loop_done' = FALSE
    /\ prev_texts' = texts
    /\ stable' = (run = 0 \/ (stable /\ texts' = texts))
    /\ fs0' = fs
    /\ UNCHANGED <<inputVars, fs, classVars>>

\* main with pick_manually false: find_chapters selects the same chapters in
\* every run
main_start == start_run(bodies)

\* main with pick_manually true: the chapters are those the user selects
main_start_pick == \E chs \in Selections : start_run(chs)

\* an iteration that skips an empty chapter
skip_empty ==
    /\ pc = "loop" /\ i <= Len(texts)
    /\ IsEmptyChapter(texts[i])
    /\ jobs' = [jobs EXCEPT ![i] = "SkippedEmpty"]
    /\ i' = i + 1
    /\ UNCHANGED <<inputVars, fs, pc, run, texts, text, samples, chapter_mp3_files,
                   total_chars, processed_chars, combined_audio, returncode,
                   calls, reused, loop_done, prev_loop_done, prev_texts, stable, fs0, classVars>>

\* an iteration that finds the chapter's file
skip_exists ==
    /\ pc = "loop" /\ i <= Len(texts)
    /\ ~IsEmptyChapter(texts[i])
    /\ Exists(chapter_filename(i))
    /\ chapter_mp3_files' = Append(chapter_mp3_files, chapter_filename(i))
    /\ jobs' = [jobs EXCEPT ![i] = "SkippedExists"]
    /\ i' = i + 1
    /\ UNCHANGED <<inputVars, fs, pc, run, texts, text, samples,
                   total_chars, processed_chars, combined_audio, returncode,
                   calls, reused, loop_done, prev_loop_done, prev_texts, stable, fs0, classVars>>

\* the text a chapter is read from
chapter_input(n, t) == IF n = 1 THEN Cat(IntroLine, t) ELSE t

\* an iteration that reads the chapter, up to the call of the engine
read_chapter ==
    /\ pc = "loop" /\ i <= Len(texts)
    /\ ~IsEmptyChapter(texts[i])
    /\ ~Exists(chapter_filename(i))
    /\ chapter_mp3_files' = Append(chapter_mp3_files, chapter_filename(i))
    /\ text' = chapter_input(i, texts[i])
    /\ pc' = "create"
    /\ UNCHANGED <<inputVars, fs, run, texts, i, samples,
                   total_chars, processed_chars, combined_audio, returncode,
                   histVars, classVars>>

\* what kokoro.create is given
create_arg(t) == Slice(t, SliceLen)

\* kokoro.create returns
kokoro_create ==
    /\ pc = "create"
    /\ samples' = <<[i |-> i, text |-> create_arg(text)]>>
    /\ calls' = Append(calls, [i |-> i, arg |-> create_arg(text), text |-> text])
    /\ pc' = "write"
    /\ UNCHANGED <<inputVars, fs, run, texts, i, text, chapter_mp3_files,
                   total_chars, processed_chars, combined_audio, returncode,
                   jobs, reused, loop_done, prev_loop_done, prev_texts, stable, fs0, classVars>>

\* sf.write has created the file and not yet stored all the samples
sf_write_open ==
    /\ pc = "write"
    /\ fs' = WriteFile(fs, chapter_filename(i), File("wav", samples, FALSE, FALSE))
    /\ pc' = "writing"
    /\ UNCHANGED <<inputVars, run, texts, i, text, samples, chapter_mp3_files,
                   total_chars, processed_chars, combined_audio, returncode,
                   histVars, classVars>>

\* sf.write returns; the statistics of the chapter
sf_write_close ==
    /\ pc = "writing"
    /\ fs' = WriteFile(fs, chapter_filename(i), File("wav", samples, TRUE, FALSE))
    /\ processed_chars' = processed_chars + StrLen(text)
    /\ jobs' = [jobs EXCEPT ![i] = "Done"]
    /\ i' = i + 1
    /\ pc' = "loop"
    /\ UNCHANGED <<inputVars, run, texts, text, samples, chapter_mp3_files,
                   total_chars, combined_audio, returncode,
                   calls, reused, loop_done, prev_loop_done, prev_texts, stable, fs0, classVars>>

\* the loop ends
loop_exit ==
    /\ pc = "loop" /\ i > Len(texts)
    /\ loop_done' = TRUE
    /\ pc' = IF has_ffmpeg THEN "m4b" ELSE "done"
    /\ UNCHANGED <<inputVars, fs, run, texts, i, text, samples, chapter_mp3_files,
                   total_chars, processed_chars, combined_audio, returncode,
                   calls, jobs, reused, prev_loop_done, prev_texts, stable, fs0, classVars>>

----------------------------------------------------------------------------
(* create_m4b *)

\* AudioSegment.from_wav(p) can decode the file
IsWav(p) == Exists(p) /\ fs[p].kind = "wav"

\* combined_audio after the loop over chapter_files
RECURSIVE Combine(_)
Combine(files) == IF files = <<>> THEN <<>> ELSE fs[files[1]].segs \o Combine(Tail(files))

\* the intermediate file is found: nothing is combined
m4b_reuse ==
    /\ pc = "m4b"
    /\ Exists(tmp_filename)
    /\ reused' = TRUE
    /\ pc' = "ffmpeg"
    /\ UNCHANGED <<inputVars, fs, run, texts, i, text, samples, chapter_mp3_files,
                   total_chars, processed_chars, combined_audio, returncode,
                   calls, jobs, loop_done, prev_loop_done, prev_texts, stable, fs0, classVars>>

\* every chapter file is decoded and appended
m4b_combine ==
    /\ pc = "m4b"
    /\ ~Exists(tmp_filename)
    /\ \A k \in 1..Len(chapter_mp3_files) : IsWav(chapter_mp3_files[k])
    /\ combined_audio' = Combine(chapter_mp3_files)
    /\ pc' = "export"
    /\ UNCHANGED <<inputVars, fs, run, texts, i, text, samples, chapter_mp3_files,
                   total_chars, processed_chars, returncode, histVars, classVars>>

\* from_wav raises: a file that is no audio, or one cut short that the
\* decoder refuses
m4b_combine_raises ==
    /\ pc = "m4b"
    /\ ~Exists(tmp_filename)
    /\ \E k \in 1..Len(chapter_mp3_files) :
          ~IsWav(chapter_mp3_files[k]) \/ ~fs[chapter_mp3_files[k]].complete
    /\ pc' = "crashed"
    /\ UNCHANGED <<inputVars, fs, run, texts, i, text, samples, chapter_mp3_files,
                   total_chars, processed_chars, combined_audio, returncode,
                   histVars, classVars>>

\* combined_audio.export has opened the intermediate file
export_open ==
    /\ pc = "export"
    /\ fs' = WriteFile(fs, tmp_filename, File("mp4", <<>>, FALSE, FALSE))
    /\ pc' = "exporting"
    /\ UNCHANGED <<inputVars, run, texts, i, text, samples, chapter_mp3_files,
                   total_chars, processed_chars, combined_audio, returncode,
                   histVars, classVars>>

\* combined_audio.export returns
export_close ==
    /\ pc = "exporting"
    /\ fs' = WriteFile(fs, tmp_filename, File("mp4", combined_audio, TRUE, FALSE))
    /\ pc' = "ffmpeg"
    /\ UNCHANGED <<inputVars, run, texts, i, text, samples, chapter_mp3_files,
                   total_chars, processed_chars, combined_audio, returncode,
                   histVars, classVars>>

\* ffmpeg can read its input: a whole audio container that is not also the
\* output file
FfmpegInputOk ==
    /\ Exists(tmp_filename)
    /\ fs[tmp_filename].kind \in {"mp4", "wav"}
    /\ fs[tmp_filename].complete
    /\ tmp_filename # final_filename

\* ffmpeg exits non-zero without writing: an input it cannot read, an
\* existing output it is told not to overwrite, or any other failure
ffmpeg_refuses ==
    /\ pc = "ffmpeg"
    /\ returncode' = 1
    /\ pc' = "unlink"
    /\ UNCHANGED <<inputVars, fs, run, texts, i, text, samples, chapter_mp3_files,
                   total_chars, processed_chars, combined_audio,
                   histVars, classVars>>

\* ffmpeg has opened the output file
ffmpeg_open ==
    /\ pc = "ffmpeg"
    /\ FfmpegInputOk
    /\ fs' = WriteFile(fs, final_filename,
                       File("m4b", fs[tmp_filename].segs, FALSE, cover_image))
    /\ pc' = "muxing"
    /\ UNCHANGED <<inputVars, run, texts, i, text, samples, chapter_mp3_files,
                   total_chars, processed_chars, combined_audio, returncode,
                   histVars, classVars>>

\* ffmpeg exits: 0 with the output written, non-zero with the output cut short
ffmpeg_exit ==
    /\ pc = "muxing"
    /\ \E rc \in {0, 1} :
          /\ returncode' = rc
          /\ fs' = IF rc = 0
                   THEN WriteFile(fs, final_filename,
                                  File("m4b", fs[tmp_filename].segs, TRUE, cover_image))
                   ELSE fs
    /\ pc' = "unlink"
    /\ UNCHANGED <<inputVars, run, texts, i, text, samples, chapter_mp3_files,
                   total_chars, processed_chars, combined_audio,
                   histVars, classVars>>

\* Path(tmp_filename).unlink() and the closing messages
unlink_tmp ==
    /\ pc = "unlink"
    /\ fs' = Unlink(fs, tmp_filename)
    /\ pc' = "done"
    /\ UNCHANGED <<inputVars, run, texts, i, text, samples, chapter_mp3_files,
                   total_chars, processed_chars, combined_audio, returncode,
                   histVars, classVars>>

\* the process is stopped (a user interrupt, or an exception of a collaborator)
interrupt ==
    /\ pc \in Running
    /\ pc' = "stopped"
    /\ UNCHANGED <<inputVars, fs, run, texts, i, text, samples, chapter_mp3_files,
                   total_chars, processed_chars, combined_audio, returncode,
                   histVars, classVars>>

Next ==
    \/ main_start
    \/ skip_empty
    \/ skip_exists
    \/ read_chapter
    \/ kokoro_create
    \/ sf_write_open
    \/ sf_write_close
    \/ loop_exit
    \/ m4b_reuse
    \/ m4b_combine
    \/ m4b_combine_raises
    \/ export_open
    \/ export_close
    \/ ffmpeg_refuses
    \/ ffmpeg_open
    \/ ffmpeg_exit
    \/ unlink_tmp
    \/ interrupt

\* every run with pick_manually false
Spec == Init /\ [][Next]_vars

NextPick == Next \/ main_start_pick

\* runs with pick_manually false or true
SpecPick == Init /\ [][NextPick]_vars

----------------------------------------------------------------------------
(* The chapter classifier: is_chapter, find_chapters, pick_chapters *)

UpperCase == <<"A", "B", "C", "D", "E", "F", "G", "H", "I", "J", "K", "L", "M",
               "N", "O", "P", "Q", "R", "S", "T", "U", "V", "W", "X", "Y", "Z">>
LowerCase == <<"a", "b", "c", "d", "e", "f", "g", "h", "i", "j", "k", "l", "m",
               "n", "o", "p", "q", "r", "s", "t", "u", "v", "w", "x", "y", "z">>
Digits == {"0", "1", "2", "3", "4", "5", "6", "7", "8", "9"}

LowerChar(ch) ==
    IF \E k \in 1..Len(UpperCase) : UpperCase[k] = ch
    THEN LowerCase[CHOOSE k \in 1..Len(UpperCase) : UpperCase[k] = ch]
    ELSE ch

\* name.lower()
Lower(name) == [k \in 1..Len(name) |-> LowerChar(name[k])]

\* pat in name
Contains(name, pat) ==
    \E k \in 1..(Len(name) - Len(pat) + 1) : SubSeq(name, k, k + Len(pat) - 1) = pat

\* re.search(pat + r"\d{1,3}", name)
SearchDigits(name, pat) ==
    \E k \in 1..(Len(name) - Len(pat)) :
        /\ SubSeq(name, k, k + Len(pat) - 1) = pat
        /\ name[k + Len(pat)] \in Digits

is_chapter(c) ==
    LET name == Lower(c.name)
    IN  \/ Contains(Lower(name), <<"c", "h", "a", "p", "t", "e", "r">>)
        \/ SearchDigits(name, <<"p", "a", "r", "t">>)
        \/ SearchDigits(name, <<"c", "h">>)
        \/ SearchDigits(name, <<"c", "h", "a", "p">>)

IsDocument(c) == c.type = "ITEM_DOCUMENT"

IsDocumentChapter(c) == IsDocument(c) /\ is_chapter(c)

\* the selection without the fallback to every Document item
find_chapters_NoFallback(book) == SelectSeq(book, IsDocumentChapter)

find_chapters(book) ==
    LET found == SelectSeq(book, IsDocumentChapter)
    IN  IF Len(found) = 0 THEN SelectSeq(book, IsDocument) ELSE found

\* the names offered to the user
all_chapters_names(book) == {book[k].name : k \in {j \in 1..Len(book) : IsDocument(book[j])}}

RECURSIVE NamedIn(_, _)
NamedIn(book, selected) ==
    IF book = <<>> THEN <<>>
    ELSE (IF book[1].name \in selected THEN <<book[1]>> ELSE <<>>)
         \o NamedIn(Tail(book), selected)

pick_chapters(book, selected) == NamedIn(book, selected)

ItemNames ==
    { <<"i", "n", "t", "r", "o">>,
      <<"C", "h", "a", "p", "t", "e", "r">>,
      <<"p", "a", "r", "t", "1", "2">>,
      <<"P", "a", "r", "t">>,
      <<"c", "h", "2">>,
      <<"c", "h", "a", "p", "3">>,
      <<"s", "e", "a", "r", "c", "h">> }
ItemTypes == {"ITEM_DOCUMENT", "ITEM_COVER"}
Items == [name : ItemNames, type : ItemTypes]

InitClassify ==
    /\ items \in {<<>>} \cup SeqsUpTo(Items, MaxItems)
    /\ chapters = <<>>
    /\ cpc = "start"
    /\ filename = <<"book", ".epub">>
    /\ inCwd = TRUE
    /\ title = Str("t", 4)
    /\ creator = Str("c", 3)
    /\ cover_image = FALSE
    /\ has_ffmpeg = FALSE
    /\ bodies = <<>>
    /\ texts = <<>>
    /\ fs = [p \in {filename} |-> EpubFile]
    /\ pc = "idle"
    /\ run = 0
    /\ i = 0
    /\ text = <<>>
    /\ samples = <<>>
    /\ chapter_mp3_files = <<>>
    /\ total_chars = 0
    /\ processed_chars = 0
    /\ combined_audio = <<>>
    /\ returncode = -1
    /\ calls = <<>>
    /\ jobs = <<>>
    /\ reused = FALSE
    /\ loop_done = FALSE
    /\ prev_loop_done = FALSE
    /\ prev_texts = <<>>
    /\ stable = TRUE
    /\ fs0 = fs

\* main with pick_manually false
auto_select ==
    /\ cpc = "start"
    /\ chapters' = find_chapters(items)
    /\ cpc' = "auto"
    /\ UNCHANGED <<inputVars, fs, procVars, histVars, items>>

\* main with pick_manually true: the user selects at least one name
manual_select ==
    /\ cpc = "start"
    /\ \E selected \in SUBSET all_chapters_names(items) :
          /\ selected # {}
          /\ chapters' = pick_chapters(items, selected)
    /\ cpc' = "manual"
    /\ UNCHANGED <<inputVars, fs, procVars, histVars, items>>

NextClassify == auto_select \/ manual_select

SpecClassify == InitClassify /\ [][NextClassify]_vars

----------------------------------------------------------------------------
(* Properties *)

\* chapter k of the input is below the minimum length once stripped
ShortText(k) == StrLen(Strip(texts[k])) < MinChars

\* the input file name holds the extension that main replaces
HasEpubToken == \E k \in 1..Len(filename) : filename[k] = ".epub"

Range(s) == {s[k] : k \in 1..Len(s)}

WavPaths(dir) == {p \in DOMAIN dir : dir[p].kind = "wav"}

C2_ResumeSafe ==
    HasEpubToken =>
        /\ \A k \in 1..Len(texts) :
              jobs[k] = "SkippedExists" => fs[chapter_filename(k)].complete
        /\ loop_done =>
              \A k \in 1..Len(texts) :
                  ~ShortText(k) =>
                      /\ Exists(chapter_filename(k))
                      /\ fs[chapter_filename(k)].complete

\* C3: when create_m4b has returned and ffmpeg exited non-zero, the
\* intermediate combined file still exists.
C3_TmpKeptOnFailure ==
    (pc = "done" /\ returncode > 0) => Exists(tmp_filename)

\* C4: in a run that reads at least one chapter, the announcement line is
\* prepended to the text of the first chapter read and to no other.
C4_IntroOnFirstRead ==
    calls # <<>> =>
        /\ calls[1].text = Cat(IntroLine, texts[calls[1].i])
        /\ \A k \in 2..Len(calls) : calls[k].text = texts[calls[k].i]

\* C5: processed_chars never exceeds total_chars.
C5_ProgressBounded == processed_chars <= total_chars

\* C6, the state: a chapter below the minimum length is never handed to the
\* engine and its job is skipped as empty; when every run so far was given
\* the same texts, no audio of it is in any file and it has no file.
C6_State ==
    \A k \in 1..Len(texts) :
        ShortText(k) =>
            /\ jobs[k] \in {"Pending", "SkippedEmpty"}
            /\ \A c \in 1..Len(calls) : calls[c].i # k
            /\ stable =>
                  \A p \in DOMAIN fs : \A n \in 1..Len(fs[p].segs) : fs[p].segs[n].i # k
            /\ (stable /\ HasEpubToken) => ~Exists(chapter_filename(k))

\* C6, the step: the iteration of such a chapter changes neither the calls,
\* nor the files, nor the list handed to create_m4b, nor processed_chars.
C6_Step ==
    (pc = "loop" /\ i <= Len(texts) /\ ShortText(i)) =>
        /\ calls' = calls
        /\ fs' = fs
        /\ chapter_mp3_files' = chapter_mp3_files
        /\ processed_chars' = processed_chars
        /\ pc' \in {"loop", "stopped"}

\* C6: skip rule A: in every run a chapter whose stripped text is shorter than
\* 10 characters causes no call of kokoro.create, gets no file, adds no path to
\* the list handed to create_m4b and leaves processed_chars as it was.
C6_SkipRuleA == []C6_State /\ [][C6_Step]_vars

\* C6 witness: in a rerun, a chapter of 10 characters or more whose stripped
\* text is shorter has been skipped as empty while another chapter was read.
C6_Witness ==
    /\ run >= 2
    /\ stable
    /\ \E k \in 1..Len(texts) :
          ShortText(k) /\ StrLen(texts[k]) >= MinChars /\ jobs[k] = "SkippedEmpty"
    /\ \E k \in 1..Len(texts) : jobs[k] = "Done"

\* the items of its at the indices in S, in ascending order
RECURSIVE ItemsAt(_, _, _)
ItemsAt(its, S, k) ==
    IF k > Len(its) THEN <<>>
    ELSE (IF k \in S THEN <<its[k]>> ELSE <<>>) \o ItemsAt(its, S, k + 1)

DocumentIndices == {k \in 1..Len(items) : items[k].type = "ITEM_DOCUMENT"}

\* the indices of the Document items whose lower-cased name holds "chapter",
\* or "part", "ch" or "chap" followed by a digit
AcceptedIndices ==
    {k \in DocumentIndices :
        LET name == Lower(items[k].name)
        IN  \/ Contains(name, <<"c", "h", "a", "p", "t", "e", "r">>)
            \/ \E pat \in {<<"p", "a", "r", "t">>, <<"c", "h">>, <<"c", "h", "a", "p">>} :
                  SearchDigits(name, pat)}

\* C7: with at least one Document item, find_chapters returns a non-empty
\* list: the accepted Document items in their order when there are any, and
\* all the Document items in their order when there are none.
C7_FallbackToAll ==
    (cpc = "auto" /\ DocumentIndices # {}) =>
        /\ chapters # <<>>
        /\ chapters = ItemsAt(items,
                              IF AcceptedIndices # {} THEN AcceptedIndices
                              ELSE DocumentIndices, 1)

\* C7 witness: find_chapters has fallen back to all of two or more Document
\* items, none of them accepted, beside an item that is no Document.
C7_Witness ==
    /\ cpc = "auto"
    /\ AcceptedIndices = {}
    /\ Cardinality(DocumentIndices) >= 2
    /\ Cardinality(DocumentIndices) < Len(items)
    /\ Len(chapters) = Cardinality(DocumentIndices)

\* the audio of the files of the chapters of stripped length >= 10, in
\* ascending chapter index, from chapter k
RECURSIVE ChapterAudio(_)
ChapterAudio(k) ==
    IF k > Len(texts) THEN <<>>
    ELSE (IF ShortText(k) THEN <<>> ELSE fs[chapter_filename(k)].segs)
         \o ChapterAudio(k + 1)

\* C8: when ffmpeg has exited with 0 in this run, the final .m4b holds the
\* audio of the files of this run's chapters of stripped length >= 10,
\* concatenated in ascending chapter index, whether the intermediate file was
\* built by this run or left by an earlier run and reused.
C8_AssemblerOrder ==
    (pc \in {"unlink", "done"} /\ returncode = 0) =>
        /\ Exists(final_filename)
        /\ fs[final_filename].kind = "m4b"
        /\ fs[final_filename].complete
        /\ fs[final_filename].segs = ChapterAudio(1)

\* C9: every call of kokoro.create is given the whole text of the chapter
\* (with the announcement line where it applies).
C9_FullText == \A k \in 1..Len(calls) : calls[k].arg = calls[k].text

\* C10: the paths the run has computed from the input file name are pairwise
\* distinct and differ from the input file name, no chapter is skipped as
\* existing because of the input file, and an input e-book in the working
\* directory stays there as it was.
C10_PathsDistinct ==
    /\ \A k \in 1..Len(chapter_mp3_files) :
          /\ chapter_mp3_files[k] # filename
          /\ \A n \in 1..Len(chapter_mp3_files) :
                chapter_mp3_files[k] = chapter_mp3_files[n] => k = n
    /\ pc \in {"m4b", "export", "exporting", "ffmpeg", "muxing", "unlink"} =>
          /\ tmp_filename # filename
          /\ final_filename # filename
          /\ tmp_filename # final_filename
          /\ tmp_filename \notin Range(chapter_mp3_files)
          /\ final_filename \notin Range(chapter_mp3_files)
    /\ (inCwd /\ cpc = "off") => (Exists(filename) /\ fs[filename] = EpubFile)

====
